---- MODULE Spec2Model ----
(***************************************************************************)
(* Model of ABS.py: the monthly cash-flow simulation of an asset-backed    *)
(* securitization (loan pool -> fees / tranche interest / tranche          *)
(* principal / loss cascade / reserve, reinvestment, call option).         *)
(*                                                                         *)
(* Numbers.  The program computes in floating point.  Here money is an     *)
(* integer number of currency units and every rate is an exact rational    *)
(* [num, den]; a product amount * rate is the exact quotient rounded down  *)
(* to a whole unit (MulDiv), as the program rounds to a double.  The       *)
(* configurations of Init are chosen so that the loan arithmetic is exact, *)
(* but for one deal whose level payment is rounded.  A comparison with the *)
(* tolerance 1e-8, which is below one unit, is a comparison with zero.     *)
(***************************************************************************)
EXTENDS Integers, Sequences, FiniteSets, TLC

\* ---------------------------------------------------------------- bounds
\* Largest simulation horizon (the `periods` argument) explored.
MaxPeriods == 3

\* ------------------------------------------------------------ arithmetic
Min(a, b) == IF a <= b THEN a ELSE b

Max(a, b) == IF a >= b THEN a ELSE b

RECURSIVE GCD(_, _)
GCD(a, b) == IF b = 0 THEN a ELSE GCD(b, a % b)

\* <<floor(a * b / c), (a * b) % c>> for a, b >= 0 and c > 0, by binary long
\* multiplication, so that no intermediate value exceeds 2 * c + a.
RECURSIVE MulDivQR(_, _, _)
MulDivQR(a, b, c) ==
    IF b = 0 THEN <<0, 0>>
    ELSE LET h  == MulDivQR(a, b \div 2, c)
             d  == IF 2 * h[2] >= c THEN <<2 * h[1] + 1, 2 * h[2] - c>>
                   ELSE <<2 * h[1], 2 * h[2]>>
             s  == d[2] + (a % c)
         IN  IF b % 2 = 0 THEN d
             ELSE IF s >= c THEN <<d[1] + (a \div c) + 1, s - c>>
             ELSE <<d[1] + (a \div c), s>>

\* floor(a * b / c) for a, b >= 0 and c > 0; common factors are cancelled
\* first.
MulDiv(a, b, c) ==
    LET g == GCD(b, c)
    IN  IF g = 0 THEN 0 ELSE MulDivQR(a, b \div g, c \div g)[1]

RECURSIVE Pow(_, _)
Pow(b, n) == IF n = 0 THEN 1 ELSE b * Pow(b, n - 1)

\* A rate: the rational num / den.
Rat(n, d) == [num |-> n, den |-> d]

\* rate / 12
Div12(rate) == [num |-> rate.num, den |-> rate.den * 12]

\* amount * rate
Scale(amount, rate) == MulDiv(amount, rate.num, rate.den)

\* The rate in lowest terms.
Reduce(rate) ==
    LET g == GCD(rate.num, rate.den)
    IN  IF g = 0 THEN rate ELSE [num |-> rate.num \div g, den |-> rate.den \div g]

RECURSIVE SumSeq(_)
SumSeq(s) == IF s = <<>> THEN 0 ELSE Head(s) + SumSeq(Tail(s))

\* Sum of the values of a dict (a function with a finite domain).
RECURSIVE SumMap(_)
SumMap(f) ==
    IF DOMAIN f = {} THEN 0
    ELSE LET k == CHOOSE x \in DOMAIN f : TRUE
         IN  f[k] + SumMap([x \in DOMAIN f \ {k} |-> f[x]])

\* Python's sorted(xs, key=...): the indices of xs in ascending key order,
\* equal keys keeping their list order (the sort is stable).
SortedOrder(keys) ==
    LET n == Len(keys)
        Before(j, i) == keys[j] < keys[i] \/ (keys[j] = keys[i] /\ j < i)
    IN  [k \in 1..n |->
            CHOOSE i \in 1..n : Cardinality({j \in 1..n : Before(j, i)}) = k - 1]

\* ------------------------------------------------------------------- Fee
Fee(name, base_rate, priority, tier_schedule) ==
    [name |-> name, base_rate |-> base_rate, priority |-> priority,
     tier_schedule |-> tier_schedule, accrued |-> 0]

\* TierRate with the end of a tier's range excluded.
RECURSIVE TierRateExclusiveEnd(_, _, _)
TierRateExclusiveEnd(sched, p, base_rate) ==
    IF sched = <<>> THEN base_rate
    ELSE IF Head(sched)[1] <= p /\ p < Head(sched)[2] THEN Head(sched)[3]
    ELSE TierRateExclusiveEnd(Tail(sched), p, base_rate)

RECURSIVE TierRate(_, _, _)
TierRate(sched, p, base_rate) ==
    IF sched = <<>> THEN base_rate
    ELSE IF Head(sched)[1] <= p /\ p <= Head(sched)[2] THEN Head(sched)[3]
    ELSE TierRate(Tail(sched), p, base_rate)

get_rate(fee, p, pool_bal) == TierRate(fee.tier_schedule, p, fee.base_rate)

\* Fee.calculate: the fee with its accrual advanced, and the amount returned.
calculate(fee, pool_bal, p) ==
    LET rate == get_rate(fee, p, pool_bal)
        amt  == Scale(pool_bal, Div12(rate))
    IN  [fee |-> [fee EXCEPT !.accrued = @ + amt], ret |-> amt]

\* ----------------------------------------------------------- IFRSAccount
IFRSAccount(eir, gross_carrying) ==
    [eir |-> eir, gross_carrying |-> gross_carrying, stage |-> 1,
     impairment |-> 0, interest_income |-> 0]

accrue_interest(acc) ==
    LET interest == Scale(acc.gross_carrying, Div12(acc.eir))
    IN  [acc EXCEPT !.interest_income = @ + interest]

recognize_impairment(acc, expected_loss) ==
    IF acc.stage = 1
    THEN [acc EXCEPT !.impairment = @ + MulDiv(expected_loss, 1, 100)]
    ELSE IF acc.stage = 2
    THEN [acc EXCEPT !.impairment = @ + MulDiv(expected_loss, 3, 100)]
    ELSE IF acc.stage = 3
    THEN [acc EXCEPT !.impairment = @ + expected_loss]
    ELSE acc

move_stage(acc, stage) == [acc EXCEPT !.stage = stage]

\* ------------------------------------------------------------------ Loan
Loan(principal, rate, term) ==
    [principal |-> principal, rate |-> rate, term |-> term,
     remaining_principal |-> principal, active |-> TRUE]

monthly_payment(loan) ==
    LET r  == Reduce(Div12(loan.rate))
        n  == loan.term
        up == Pow(r.den + r.num, n)
        lo == Pow(r.den, n)
    IN  IF r.num = 0 THEN loan.principal \div n
        ELSE MulDiv(loan.principal, r.num * up, r.den * (up - lo))

ZeroCashflow ==
    [interest |-> 0, principal |-> 0, prepayment |-> 0, default |-> 0,
     cashflow |-> 0, remaining_principal |-> 0]

\* Loan.step: the loan after the step, and the cash-flow dict returned.
step(loan, prepay_rate, default_rate) ==
    IF ~loan.active \/ loan.remaining_principal <= 0
    THEN [loan |-> loan, cf |-> ZeroCashflow]
    ELSE LET payment    == monthly_payment(loan)
             interest   == Scale(loan.remaining_principal, Div12(loan.rate))
             principal  == payment - interest
             prepayment == Scale(loan.remaining_principal, prepay_rate)
             default    == Scale(loan.remaining_principal, default_rate)
             total_principal ==
                 Min(loan.remaining_principal, principal + prepayment + default)
             cashflow   == interest + total_principal
             rem        == loan.remaining_principal - total_principal
             paid_off   == rem < 1
             loan2      == [loan EXCEPT
                               !.remaining_principal = IF paid_off THEN 0 ELSE rem,
                               !.active = IF paid_off THEN FALSE ELSE @]
         IN  [loan |-> loan2,
              cf |-> [interest |-> interest, principal |-> principal,
                      prepayment |-> prepayment, default |-> default,
                      cashflow |-> cashflow,
                      remaining_principal |-> loan2.remaining_principal]]

\* --------------------------------------------------------------- Tranche
Tranche(name, principal, rate, subordination_level, eir) ==
    [name |-> name, principal |-> principal, rate |-> rate,
     remaining_principal |-> principal,
     subordination_level |-> subordination_level,
     ifrs |-> IFRSAccount(eir, principal),
     interest_due |-> 0, interest_paid |-> 0, principal_paid |-> 0,
     losses |-> 0]

\* pay_interest with the coupon taken on the face amount.
pay_interest_on_face(tr, cash_available) ==
    LET interest == Scale(tr.principal, Div12(tr.rate))
        pay      == Min(interest, cash_available)
    IN  [tr |-> [tr EXCEPT !.interest_due = interest,
                           !.interest_paid = pay,
                           !.ifrs = accrue_interest(@)],
         ret |-> pay]

pay_interest(tr, cash_available) ==
    LET interest == Scale(tr.remaining_principal, Div12(tr.rate))
        pay      == Min(interest, cash_available)
    IN  [tr |-> [tr EXCEPT !.interest_due = interest,
                           !.interest_paid = pay,
                           !.ifrs = accrue_interest(@)],
         ret |-> pay]

\* pay_principal without the clamp to the remaining balance.
pay_principal_unclamped(tr, cash_available) ==
    LET pay == cash_available
        rem == tr.remaining_principal - pay
    IN  [tr |-> [tr EXCEPT !.principal_paid = pay,
                           !.remaining_principal = rem,
                           !.ifrs.gross_carrying = rem],
         ret |-> pay]

pay_principal(tr, cash_available) ==
    LET pay == Min(tr.remaining_principal, cash_available)
        rem == tr.remaining_principal - pay
    IN  [tr |-> [tr EXCEPT !.principal_paid = pay,
                           !.remaining_principal = rem,
                           !.ifrs.gross_carrying = rem],
         ret |-> pay]

\* allocate_loss recognising the impairment before the move to stage 3.
allocate_loss_impair_first(tr, loss, p) ==
    LET applied == Min(tr.remaining_principal, loss)
        acc1    == recognize_impairment(tr.ifrs, applied)
        acc2    == IF applied > 0 THEN move_stage(acc1, 3) ELSE acc1
    IN  [tr |-> [tr EXCEPT !.losses = @ + applied,
                           !.remaining_principal = @ - applied,
                           !.ifrs = acc2],
         ret |-> loss - applied]

\* Tranche.allocate_loss: gross_carrying is not touched here.
allocate_loss(tr, loss, p) ==
    LET applied == Min(tr.remaining_principal, loss)
        acc1    == IF applied > 0 THEN move_stage(tr.ifrs, 3) ELSE tr.ifrs
        acc2    == recognize_impairment(acc1, applied)
    IN  [tr |-> [tr EXCEPT !.losses = @ + applied,
                           !.remaining_principal = @ - applied,
                           !.ifrs = acc2],
         ret |-> loss - applied]

\* -------------------------------------------------------- ReserveAccount
ReserveAccount(target) == [target |-> target, balance |-> 0]

\* fill without the clamp to the headroom.
fill_all_cash(res, cash_available) ==
    LET added == cash_available
    IN  [res |-> [res EXCEPT !.balance = @ + added], ret |-> added]

\* fill that takes the target, not target - balance, as the headroom.
fill_up_to_target(res, cash_available) ==
    LET to_fill == res.target
        added   == Min(cash_available, to_fill)
    IN  [res |-> [res EXCEPT !.balance = @ + added], ret |-> added]

fill(res, cash_available) ==
    LET to_fill == res.target - res.balance
        added   == Min(cash_available, to_fill)
    IN  [res |-> [res EXCEPT !.balance = @ + added], ret |-> added]

withdraw(res, amount) ==
    LET taken == Min(res.balance, amount)
    IN  [res |-> [res EXCEPT !.balance = @ - taken], ret |-> taken]

\* -------------------------------------------------------- CallableOption
CallableOption(call_period, call_price_pct) ==
    [call_period |-> call_period, call_price_pct |-> call_price_pct,
     called |-> FALSE]

\* check_call without the test period >= call_period.
check_call_any_period(opt, p, pool_bal, call_trigger) ==
    LET hit  == pool_bal * call_trigger.den < call_trigger.num
        opt2 == IF hit THEN [opt EXCEPT !.called = TRUE] ELSE opt
    IN  [opt |-> opt2, ret |-> opt2.called]

\* CallableOption.check_call; call_trigger is a rational.  The option with
\* its latch updated, and the value returned.
check_call(opt, p, pool_bal, call_trigger) ==
    LET hit  == p >= opt.call_period
                /\ pool_bal * call_trigger.den < call_trigger.num
        opt2 == IF hit THEN [opt EXCEPT !.called = TRUE] ELSE opt
    IN  [opt |-> opt2, ret |-> opt2.called]

\* ------------------------------------------------------------- the state
VARIABLES
    cfg,                \* arguments of simulate_abs that never change, and
                        \* initial_loans, the length of the pool passed in
    pool,               \* list of Loan
    tranches,           \* list of Tranche
    reserve,            \* ReserveAccount
    fees,               \* list of Fee
    callable_opt,       \* <<>> (None) or <<CallableOption>>
    t,                  \* loop index of simulate_abs (month = t + 1)
    pc,                 \* position in simulate_abs / waterfall
    period,             \* the period dict under construction
    history,            \* list of period dicts
    pool_balance,       \* local of simulate_abs
    notes_balance,      \* local of simulate_abs
    results,            \* local of waterfall
    cash_interest,      \* local of waterfall
    cash_principal,     \* local of waterfall
    losses,             \* local of waterfall
    leftover_principal, \* local of simulate_abs
    cum_principal_paid  \* per tranche index: sum of the values pay_principal returned

vars == <<cfg, pool, tranches, reserve, fees, callable_opt, t, pc, period,
          history, pool_balance, notes_balance, results, cash_interest,
          cash_principal, losses, leftover_principal, cum_principal_paid>>

\* ------------------------------------------------------- waterfall loops
\* FeePay without the clamp to the interest cash left.
FeePayInFull(entitlement, cash) == entitlement

\* line 160: what a fee is paid out of the interest cash.
FeePay(entitlement, cash) == Min(entitlement, cash)

\* 1. Fees by priority.
RECURSIVE FeesLoop(_, _, _, _, _, _)
FeesLoop(order, fs, cash, paid, pool_bal, p) ==
    IF order = <<>>
    THEN [fees |-> fs, cash_interest |-> cash, fees_paid |-> paid]
    ELSE LET i   == Head(order)
             c   == calculate(fs[i], pool_bal, p)
             pay == FeePay(c.ret, cash)
         IN  FeesLoop(Tail(order), [fs EXCEPT ![i] = c.fee], cash - pay,
                      (fs[i].name :> pay) @@ paid, pool_bal, p)

\* 2. Interest payments, most senior first.
RECURSIVE InterestLoop(_, _, _, _)
InterestLoop(order, trs, cash, paid) ==
    IF order = <<>>
    THEN [tranches |-> trs, cash_interest |-> cash, interest_paid |-> paid]
    ELSE LET i == Head(order)
             r == pay_interest(trs[i], cash)
         IN  InterestLoop(Tail(order), [trs EXCEPT ![i] = r.tr], cash - r.ret,
                          (trs[i].name :> r.ret) @@ paid)

\* 3. Principal, sequential (turbo): most senior first.
RECURSIVE SequentialLoop(_, _, _, _, _)
SequentialLoop(order, trs, cash, paid, rets) ==
    IF order = <<>>
    THEN [tranches |-> trs, cash_principal |-> cash, principal_paid |-> paid,
          rets |-> rets]
    ELSE LET i == Head(order)
             r == pay_principal(trs[i], cash)
         IN  SequentialLoop(Tail(order), [trs EXCEPT ![i] = r.tr], cash - r.ret,
                            (trs[i].name :> r.ret) @@ paid,
                            [rets EXCEPT ![i] = @ + r.ret])

\* lines 182-185: the pro-rata payment of one tranche; cash is the value of
\* cash_principal when the tranche's turn comes.
ProRataPay(cash, rem, total_outstanding) ==
    LET byshare == IF total_outstanding > 0
                   THEN MulDiv(cash, rem, total_outstanding) ELSE 0
    IN  Max(Min(Min(byshare, rem), cash), 0)

\* 3. Principal, pro-rata: in list order.
RECURSIVE ProRataLoop(_, _, _, _, _, _)
ProRataLoop(k, trs, cash, total_outstanding, paid, rets) ==
    IF k > Len(trs)
    THEN [tranches |-> trs, cash_principal |-> cash, principal_paid |-> paid,
          rets |-> rets]
    ELSE LET pay == ProRataPay(cash, trs[k].remaining_principal, total_outstanding)
             r   == pay_principal(trs[k], pay)
         IN  ProRataLoop(k + 1, [trs EXCEPT ![k] = r.tr], cash - pay,
                         total_outstanding, (trs[k].name :> pay) @@ paid,
                         [rets EXCEPT ![k] = @ + r.ret])

\* 4. Allocate losses, most junior first.
RECURSIVE LossLoop(_, _, _, _, _)
LossLoop(order, trs, loss, res, p) ==
    IF order = <<>>
    THEN [tranches |-> trs, losses |-> loss, tranche_losses |-> res]
    ELSE LET i == Head(order)
             r == allocate_loss(trs[i], loss, p)
         IN  LossLoop(Tail(order), [trs EXCEPT ![i] = r.tr], r.ret,
                      (trs[i].name :> r.tr.losses) @@ res, p)

\* The tranches taken in list order, unsorted.
InListOrder(trs) == [i \in 1..Len(trs) |-> i]

BySubordination(trs) ==
    SortedOrder([i \in 1..Len(trs) |-> trs[i].subordination_level])

\* Loss order ascending instead of descending: the most senior first.
SeniorFirst(trs) ==
    SortedOrder([i \in 1..Len(trs) |-> trs[i].subordination_level])

ByDescendingSubordination(trs) ==
    SortedOrder([i \in 1..Len(trs) |-> -trs[i].subordination_level])

ByPriority(fs) == SortedOrder([i \in 1..Len(fs) |-> fs[i].priority])

\* ------------------------------------------------ simulate_abs helpers
LoanSize == 100000

\* One pass of `for loan in pool`: the stepped pool and the period totals.
RECURSIVE StepPool(_, _, _, _, _)
StepPool(k, lns, tot, prepay_rate, default_rate) ==
    IF k > Len(lns) THEN [pool |-> lns, totals |-> tot]
    ELSE LET s  == step(lns[k], prepay_rate, default_rate)
             cf == s.cf
         IN  StepPool(k + 1, [lns EXCEPT ![k] = s.loan],
                      [total_interest   |-> tot.total_interest + cf.interest,
                       total_principal  |-> tot.total_principal + cf.principal
                                                + cf.prepayment,
                       total_prepayment |-> tot.total_prepayment + cf.prepayment,
                       total_default    |-> tot.total_default + cf.default,
                       total_losses     |-> tot.total_losses
                                                + Scale(cf.default, cfg.lgd)],
                      prepay_rate, default_rate)

PoolBalance(lns) == SumSeq([i \in 1..Len(lns) |-> lns[i].remaining_principal])

NotesBalance(trs) == SumSeq([i \in 1..Len(trs) |-> trs[i].remaining_principal])

\* lines 237-240: the call redemption of every tranche, in list order.
RECURSIVE CallLoop(_, _, _, _, _)
CallLoop(k, trs, pct, redeemed, rets) ==
    IF k > Len(trs)
    THEN [tranches |-> trs, call_redemption |-> redeemed, rets |-> rets]
    ELSE LET pay == Scale(trs[k].remaining_principal, pct)
             r   == pay_principal(trs[k], pay)
         IN  CallLoop(k + 1, [trs EXCEPT ![k] = r.tr], pct,
                      (trs[k].name :> pay) @@ redeemed,
                      [rets EXCEPT ![k] = @ + r.ret])

\* lines 262-264: the reinvestment loop.
RECURSIVE ReinvestLoop(_, _)
ReinvestLoop(lns, leftover) ==
    IF leftover >= LoanSize
    THEN ReinvestLoop(Append(lns, Loan(LoanSize, cfg.loan_rate, cfg.loan_term)),
                      leftover - LoanSize)
    ELSE [pool |-> lns, leftover_principal |-> leftover]

\* The loop without its early exit.
NeverPaidOff(trs) == FALSE

\* any() where the code has all().
AnyPaidOff(trs) == \E i \in 1..Len(trs) : trs[i].remaining_principal = 0

\* line 279
AllPaidOff(trs) == \A i \in 1..Len(trs) : trs[i].remaining_principal = 0

\* line 236: the value of `callable_opt and callable_opt.check_call(...)`.
CallCheck ==
    check_call(callable_opt[1], t + 1, pool_balance,
               [num |-> 5 * notes_balance, den |-> 100])

Triggered == callable_opt # <<>> /\ CallCheck.ret

\* Keys f'{x.name}_...' of a dict: the names, and for each name the entry of
\* the list that wrote the key last.
Names(xs) == {xs[i].name : i \in 1..Len(xs)}

LastNamed(xs, n) ==
    xs[CHOOSE i \in 1..Len(xs) :
           xs[i].name = n /\ \A j \in 1..Len(xs) : xs[j].name = n => j <= i]

\* ---------------------------------------------------------- configurations
\* The deals explored: a loan pool, a tranche list (list order need not be
\* seniority order), a fee list and a reserve target.  The tier schedule of
\* FeesHeavy's AdminFee overlaps in period 2.
ZeroRate == Rat(0, 1)

Coupons == <<Rat(12, 100), Rat(24, 100), Rat(36, 100)>>

TiersServicer == <<<<1, 1, Rat(12, 100)>>, <<2, 2, Rat(24, 100)>>>>

FeesModest ==
    <<Fee("AdminFee", Rat(6, 100), 2, <<>>),
      Fee("ServicerFee", Rat(6, 100), 1, TiersServicer)>>

FeesHeavy ==
    <<Fee("ServicerFee", Rat(12, 10), 1, <<>>),
      Fee("AdminFee", Rat(12, 100), 2,
          <<<<1, 360, Rat(24, 100)>>, <<2, 2, Rat(36, 100)>>>>)>>

TranchesABC(a, b, c) ==
    <<Tranche("A", a, Coupons[1], 1, Coupons[1]),
      Tranche("B", b, Coupons[2], 2, Coupons[2]),
      Tranche("C", c, Coupons[3], 3, Coupons[3])>>

TranchesCAB(a, b, c) ==
    <<Tranche("C", c, Coupons[3], 3, Coupons[3]),
      Tranche("A", a, Coupons[1], 1, Coupons[1]),
      Tranche("B", b, Coupons[2], 2, Coupons[2])>>

\* B and C share a subordination level.
TranchesTied(a, b, c) ==
    <<Tranche("A", a, Coupons[1], 1, Coupons[1]),
      Tranche("B", b, Coupons[2], 2, Coupons[2]),
      Tranche("C", c, Coupons[3], 2, Coupons[3])>>

Deal(lns, trs, fs, target) ==
    [pool |-> lns, tranches |-> trs, fees |-> fs, reserve |-> ReserveAccount(target)]

Deals ==
    { \* high-yield pool, fully collateralised notes
      Deal(<<Loan(100000, Rat(6, 1), 2), Loan(200000, Rat(6, 1), 2)>>,
           TranchesABC(150000, 100000, 50000), FeesModest, 20000),
      \* the same pool, tranche list out of seniority order
      Deal(<<Loan(100000, Rat(6, 1), 2), Loan(200000, Rat(6, 1), 2)>>,
           TranchesCAB(150000, 100000, 50000), FeesHeavy, 0),
      \* low-yield pool: interest cash short of fees and coupons
      Deal(<<Loan(201000, Rat(12, 100), 2), Loan(100000, Rat(12, 100), 1)>>,
           TranchesCAB(240000, 40000, 20000), FeesModest, 1000),
      \* zero-rate three-month pool, notes larger than the pool
      Deal(<<Loan(300000, ZeroRate, 3)>>,
           TranchesABC(200000, 100000, 100000), FeesModest, 5000),
      \* large pool behind small notes: principal cash is left over
      Deal(<<Loan(400000, ZeroRate, 2), Loan(100000, Rat(6, 1), 2)>>,
           TranchesABC(50000, 30000, 20000), FeesHeavy, 100000),
      \* one-month pool: pool balance is 0 from the first period on
      Deal(<<Loan(100000, Rat(12, 100), 1), Loan(100000, ZeroRate, 1)>>,
           TranchesCAB(200000, 60000, 40000), FeesModest, 0),
      \* tied subordination levels
      Deal(<<Loan(201000, Rat(12, 100), 2)>>,
           TranchesTied(100000, 60000, 41000), FeesModest, 0),
      \* level payment 100000 / 3, which is rounded; thin interest cash
      Deal(<<Loan(100000, ZeroRate, 3), Loan(12000, Rat(12, 100), 3)>>,
           TranchesABC(120000, 50000, 30000), FeesModest, 10000) }

\* cpr, cdr, lgd
Stress ==
    { [cpr |-> ZeroRate, cdr |-> ZeroRate, lgd |-> Rat(1, 1)],
      [cpr |-> Rat(12, 10), cdr |-> ZeroRate, lgd |-> Rat(1, 1)],
      [cpr |-> ZeroRate, cdr |-> Rat(12, 10), lgd |-> Rat(1, 1)],
      [cpr |-> Rat(12, 10), cdr |-> Rat(24, 10), lgd |-> Rat(1, 2)] }

Options ==
    { <<>>,
      <<CallableOption(1, Rat(1, 1))>>,
      <<CallableOption(2, Rat(1, 2))>>,
      <<CallableOption(3, Rat(3, 2))>> }

\* pro_rata_start = 36 is the default of simulate_abs.
ProRataStarts == {1, 2, 36}

\* ------------------------------------------------------------------ Init
NoTotals ==
    [total_interest |-> 0, total_principal |-> 0, total_prepayment |-> 0,
     total_default |-> 0, total_losses |-> 0]

Init ==
    /\ \E d \in Deals, s \in Stress, o \in Options,
          n \in 1..MaxPeriods, prs \in ProRataStarts :
          /\ cfg = [periods |-> n, loan_rate |-> Rat(6, 1), loan_term |-> 2,
                    cpr |-> s.cpr, cdr |-> s.cdr, lgd |-> s.lgd,
                    pro_rata_start |-> prs, initial_loans |-> Len(d.pool)]
          /\ pool = d.pool
          /\ tranches = d.tranches
          /\ fees = d.fees
          /\ reserve = d.reserve
          /\ callable_opt = o
          /\ cum_principal_paid = [i \in 1..Len(d.tranches) |-> 0]
    /\ t = 0
    /\ pc = "loans"
    /\ period = [month |-> 0]
    /\ history = <<>>
    /\ pool_balance = 0
    /\ notes_balance = 0
    /\ results = [fees_paid |-> <<>>]
    /\ cash_interest = 0
    /\ cash_principal = 0
    /\ losses = 0
    /\ leftover_principal = 0

\* --------------------------------------------------------------- actions
\* lines 216-233: start period t + 1, step every loan, take the balances.
StepLoans ==
    /\ pc = "loans"
    /\ t < cfg.periods
    /\ LET s == StepPool(1, pool, NoTotals, Div12(cfg.cpr), Div12(cfg.cdr))
       IN  /\ pool' = s.pool
           /\ period' = [month |-> t + 1] @@ s.totals
           /\ pool_balance' = PoolBalance(s.pool)
    /\ notes_balance' = NotesBalance(tranches)
    /\ pc' = "call"
    /\ UNCHANGED <<cfg, tranches, reserve, fees, callable_opt, t, history,
                   results, cash_interest, cash_principal, losses,
                   leftover_principal, cum_principal_paid>>

\* lines 236-243: the call triggers; redeem, record the terminal period, stop.
CallRedemption ==
    /\ pc = "call"
    /\ Triggered
    /\ LET opt == CallCheck.opt
           c   == CallLoop(1, tranches, opt.call_price_pct, <<>>,
                           [i \in 1..Len(tranches) |-> 0])
           rec == [called |-> TRUE, call_redemption |-> c.call_redemption]
                      @@ period
       IN  /\ callable_opt' = <<opt>>
           /\ tranches' = c.tranches
           /\ cum_principal_paid' =
                  [i \in 1..Len(tranches) |-> cum_principal_paid[i] + c.rets[i]]
           /\ period' = rec
           /\ history' = Append(history, rec)
    /\ pc' = "done"
    /\ UNCHANGED <<cfg, pool, reserve, fees, t, pool_balance, notes_balance,
                   results, cash_interest, cash_principal, losses,
                   leftover_principal>>

\* lines 236, 246, 152-155: no call; enter waterfall().
EnterWaterfall ==
    /\ pc = "call"
    /\ ~Triggered
    /\ cash_interest' = period.total_interest
    /\ cash_principal' = period.total_principal
    /\ losses' = period.total_losses
    /\ results' = [fees_paid |-> <<>>]
    /\ pc' = "fees"
    /\ UNCHANGED <<cfg, pool, tranches, reserve, fees, callable_opt, t, period,
                   history, pool_balance, notes_balance, leftover_principal,
                   cum_principal_paid>>

\* lines 157-163
PayFees ==
    /\ pc = "fees"
    /\ LET r == FeesLoop(ByPriority(fees), fees, cash_interest, <<>>,
                         pool_balance, t + 1)
       IN  /\ fees' = r.fees
           /\ cash_interest' = r.cash_interest
           /\ results' = [fees_paid |-> r.fees_paid]
    /\ pc' = "interest"
    /\ UNCHANGED <<cfg, pool, tranches, reserve, callable_opt, t, period,
                   history, pool_balance, notes_balance, cash_principal, losses,
                   leftover_principal, cum_principal_paid>>

\* lines 165-169
PayInterest ==
    /\ pc = "interest"
    /\ LET r == InterestLoop(BySubordination(tranches), tranches,
                             cash_interest, <<>>)
       IN  /\ tranches' = r.tranches
           /\ cash_interest' = r.cash_interest
           /\ results' = [interest_paid |-> r.interest_paid] @@ results
    /\ pc' = "principal"
    /\ UNCHANGED <<cfg, pool, reserve, fees, callable_opt, t, period, history,
                   pool_balance, notes_balance, cash_principal, losses,
                   leftover_principal, cum_principal_paid>>

\* lines 172-177
PaySequential ==
    /\ pc = "principal"
    /\ t + 1 < cfg.pro_rata_start
    /\ LET r == SequentialLoop(BySubordination(tranches), tranches,
                               cash_principal, <<>>,
                               [i \in 1..Len(tranches) |-> 0])
       IN  /\ tranches' = r.tranches
           /\ cash_principal' = r.cash_principal
           /\ results' = [principal_paid |-> r.principal_paid] @@ results
           /\ cum_principal_paid' =
                  [i \in 1..Len(tranches) |-> cum_principal_paid[i] + r.rets[i]]
    /\ pc' = "losses"
    /\ UNCHANGED <<cfg, pool, reserve, fees, callable_opt, t, period, history,
                   pool_balance, notes_balance, cash_interest, losses,
                   leftover_principal>>

\* lines 178-188
PayProRata ==
    /\ pc = "principal"
    /\ ~(t + 1 < cfg.pro_rata_start)
    /\ LET r == ProRataLoop(1, tranches, cash_principal,
                            NotesBalance(tranches), <<>>,
                            [i \in 1..Len(tranches) |-> 0])
       IN  /\ tranches' = r.tranches
           /\ cash_principal' = r.cash_principal
           /\ results' = [principal_paid |-> r.principal_paid] @@ results
           /\ cum_principal_paid' =
                  [i \in 1..Len(tranches) |-> cum_principal_paid[i] + r.rets[i]]
    /\ pc' = "losses"
    /\ UNCHANGED <<cfg, pool, reserve, fees, callable_opt, t, period, history,
                   pool_balance, notes_balance, cash_interest, losses,
                   leftover_principal>>

\* lines 190-193
AllocateLosses ==
    /\ pc = "losses"
    /\ LET r == LossLoop(ByDescendingSubordination(tranches), tranches, losses,
                         <<>>, t + 1)
       IN  /\ tranches' = r.tranches
           /\ losses' = r.losses
           /\ results' = [losses |-> r.tranche_losses] @@ results
    /\ pc' = "reserve"
    /\ UNCHANGED <<cfg, pool, reserve, fees, callable_opt, t, period, history,
                   pool_balance, notes_balance, cash_interest, cash_principal,
                   leftover_principal, cum_principal_paid>>

\* lines 195-199, 246, 257: fill the reserve, return, period.update(wf).
ReserveFill ==
    /\ pc = "reserve"
    /\ LET r  == fill(reserve, cash_interest + cash_principal)
           wf == [reserve_fill |-> r.ret] @@ results
       IN  /\ reserve' = r.res
           /\ results' = wf
           /\ period' = wf @@ period
    /\ leftover_principal' = cash_principal
    /\ pc' = "reinvest"
    /\ UNCHANGED <<cfg, pool, tranches, fees, callable_opt, t, history,
                   pool_balance, notes_balance, cash_interest, cash_principal,
                   losses, cum_principal_paid>>

\* lines 259-265
Reinvest ==
    /\ pc = "reinvest"
    /\ LET r == IF t + 1 < cfg.pro_rata_start
                THEN ReinvestLoop(pool, leftover_principal)
                ELSE [pool |-> pool, leftover_principal |-> leftover_principal]
       IN  /\ pool' = r.pool
           /\ leftover_principal' = r.leftover_principal
           /\ period' = [reinvested_principal |->
                            period.total_principal - r.leftover_principal]
                        @@ period
    /\ pc' = "record"
    /\ UNCHANGED <<cfg, tranches, reserve, fees, callable_opt, t, history,
                   pool_balance, notes_balance, results, cash_interest,
                   cash_principal, losses, cum_principal_paid>>

\* lines 267-280 and the loop head: complete and append the record; stop when
\* every tranche is paid off or the horizon is exhausted.
Record ==
    /\ pc = "record"
    /\ LET rec == [outstanding |->
                       [n \in Names(tranches) |->
                           LastNamed(tranches, n).remaining_principal],
                   ifrs_interest_income |->
                       [n \in Names(tranches) |->
                           LastNamed(tranches, n).ifrs.interest_income],
                   ifrs_impairment |->
                       [n \in Names(tranches) |->
                           LastNamed(tranches, n).ifrs.impairment],
                   stage |->
                       [n \in Names(tranches) |-> LastNamed(tranches, n).ifrs.stage],
                   accrued |-> [n \in Names(fees) |-> LastNamed(fees, n).accrued],
                   reserve_balance |-> reserve.balance,
                   pool_balance |-> pool_balance] @@ period
       IN  /\ period' = rec
           /\ history' = Append(history, rec)
    /\ IF AllPaidOff(tranches) \/ t + 1 >= cfg.periods
       THEN pc' = "done" /\ t' = t
       ELSE pc' = "loans" /\ t' = t + 1
    /\ UNCHANGED <<cfg, pool, tranches, reserve, fees, callable_opt,
                   pool_balance, notes_balance, results, cash_interest,
                   cash_principal, losses, leftover_principal,
                   cum_principal_paid>>

Next ==
    \/ StepLoans
    \/ CallRedemption
    \/ EnterWaterfall
    \/ PayFees
    \/ PayInterest
    \/ PaySequential
    \/ PayProRata
    \/ AllocateLosses
    \/ ReserveFill
    \/ Reinvest
    \/ Record

Spec == Init /\ [][Next]_vars

\* Sanity of the state.
TypeOK ==
    /\ pc \in {"loans", "call", "fees", "interest", "principal", "losses",
               "reserve", "reinvest", "record", "done"}
    /\ t \in 0..(cfg.periods - 1)
    /\ Len(history) <= cfg.periods

\* ------------------------------------------------------------ properties
TrancheIdx == 1..Len(tranches)

InWaterfallAfterInterest ==
    pc \in {"principal", "losses", "reserve", "reinvest", "record"}

Sequential == t + 1 < cfg.pro_rata_start

\* j is paid before i by the sequential principal loop.
PaidBefore(j, i) ==
    \/ tranches[j].subordination_level < tranches[i].subordination_level
    \/ /\ tranches[j].subordination_level = tranches[i].subordination_level
       /\ j < i

\* j absorbs losses before i.
AbsorbsBefore(j, i) ==
    \/ tranches[j].subordination_level > tranches[i].subordination_level
    \/ /\ tranches[j].subordination_level = tranches[i].subordination_level
       /\ j < i

RECURSIVE SumOver(_, _)
SumOver(S, f) ==
    IF S = {} THEN 0
    ELSE LET x == CHOOSE y \in S : TRUE IN f[x] + SumOver(S \ {x}, f)

\* C1: in every period in which waterfall() runs, fees paid plus tranche
\* interest paid is at most the period's total_interest, and the running
\* interest cash never goes negative.
C1_NoInterestOverdraft ==
    /\ cash_interest >= 0
    /\ InWaterfallAfterInterest =>
          SumMap(results.fees_paid) + SumMap(results.interest_paid)
              <= period.total_interest
    /\ \A k \in 1..Len(history) :
          "fees_paid" \in DOMAIN history[k] =>
              SumMap(history[k].fees_paid) + SumMap(history[k].interest_paid)
                  <= history[k].total_interest

\* C1 witness: interest cash was positive but short: a fee or a coupon was
\* paid only in part and the whole interest cash was used up.
C1_Witness ==
    /\ pc = "principal"
    /\ period.total_interest > 0
    /\ cash_interest = 0
    /\ \E i \in TrancheIdx :
          /\ tranches[i].interest_paid > 0
          /\ tranches[i].interest_paid < tranches[i].interest_due
    /\ SumMap(results.fees_paid) > 0

\* C2: in sequential mode each tranche, in ascending subordination order, is
\* paid min(its balance, principal cash left by the tranches before it), and
\* a tranche is paid a positive amount only if every strictly more senior
\* tranche has remaining principal 0 after its own payment.
C2_StrictSeniority ==
    [][(pc = "principal" /\ Sequential) =>
        \A i \in TrancheIdx :
            LET paid == tranches'[i].principal_paid
                before == {j \in TrancheIdx : PaidBefore(j, i)}
                left == cash_principal
                          - SumOver(before, [j \in TrancheIdx |->
                                                tranches'[j].principal_paid])
            IN  /\ paid = Min(tranches[i].remaining_principal, left)
                /\ paid = results'.principal_paid[tranches[i].name]
                /\ paid > 0 =>
                      \A j \in TrancheIdx :
                          tranches[j].subordination_level
                              < tranches[i].subordination_level
                          => tranches'[j].remaining_principal = 0]_vars

\* C2 witness: after a sequential principal step, a senior tranche was paid
\* off in full and a junior one received what was left, while a third, more
\* junior still, received nothing.
C2_Witness ==
    /\ pc = "losses"
    /\ Sequential
    /\ \E i, j, k \in TrancheIdx :
          /\ tranches[j].subordination_level < tranches[i].subordination_level
          /\ tranches[i].subordination_level < tranches[k].subordination_level
          /\ tranches[j].principal_paid > 0
          /\ tranches[j].remaining_principal = 0
          /\ tranches[i].principal_paid > 0
          /\ tranches[i].remaining_principal > 0
          /\ tranches[k].principal_paid = 0

\* C3: in pro-rata mode each tranche's principal payment is the period's
\* TOTAL principal cash times (its balance / total tranche balance, both
\* before the step), clamped to its balance; independent of list order.
C3_ProRataOfTotalCash ==
    [][(pc = "principal" /\ ~Sequential) =>
        \A i \in TrancheIdx :
            results'.principal_paid[tranches[i].name] =
                IF NotesBalance(tranches) > 0
                THEN Min(MulDiv(cash_principal, tranches[i].remaining_principal,
                                NotesBalance(tranches)),
                         tranches[i].remaining_principal)
                ELSE 0]_vars

\* C4: losses are allocated in descending subordination order: each tranche
\* absorbs min(residual loss, its balance after the principal step), the sum
\* absorbed is at most L, and a tranche's cumulative losses increase only if
\* every strictly more junior tranche ends the period at 0.
C4_LossCascade ==
    [][(pc = "losses") =>
        LET absorbed == [i \in TrancheIdx |->
                            tranches'[i].losses - tranches[i].losses]
        IN  /\ \A i \in TrancheIdx :
                  LET before == {j \in TrancheIdx : AbsorbsBefore(j, i)}
                      residual == losses - SumOver(before, absorbed)
                  IN  /\ absorbed[i] =
                            Min(residual, tranches[i].remaining_principal)
                      /\ tranches'[i].remaining_principal =
                            tranches[i].remaining_principal - absorbed[i]
                      /\ absorbed[i] > 0 =>
                            \A j \in TrancheIdx :
                                tranches[j].subordination_level
                                    > tranches[i].subordination_level
                                => tranches'[j].remaining_principal = 0
            /\ SumOver(TrancheIdx, absorbed) <= losses
            /\ losses' = losses - SumOver(TrancheIdx, absorbed)]_vars

\* C4 witness: a loss wiped out the most junior tranche and the residual
\* reached the next tranche, which absorbed part of it and survives.
C4_Witness ==
    /\ pc = "reserve"
    /\ period.total_losses > 0
    /\ \E i, j \in TrancheIdx :
          /\ tranches[j].subordination_level > tranches[i].subordination_level
          /\ tranches[j].losses > 0
          /\ tranches[j].remaining_principal = 0
          /\ tranches[i].losses > 0
          /\ tranches[i].remaining_principal > 0

\* C5: every tranche always has 0 <= remaining_principal <= principal and
\* losses + remaining_principal + cumulative principal paid <= principal.
C5_TrancheBalanceBounds ==
    \A i \in TrancheIdx :
        /\ 0 <= tranches[i].remaining_principal
        /\ tranches[i].remaining_principal <= tranches[i].principal
        /\ tranches[i].losses + tranches[i].remaining_principal
               + cum_principal_paid[i] <= tranches[i].principal

\* C5 witness: a run that ended in a call redemption above par, of a tranche
\* that had been paid principal and had absorbed losses before.
C5_Witness ==
    /\ pc = "done"
    /\ "called" \in DOMAIN period
    /\ callable_opt[1].call_price_pct.num > callable_opt[1].call_price_pct.den
    /\ \E i \in TrancheIdx :
          /\ tranches[i].losses > 0
          /\ period.call_redemption[tranches[i].name] > 0
          /\ cum_principal_paid[i] > period.call_redemption[tranches[i].name]

\* C6: after every principal payment and after every loss allocation the
\* impairment account's gross_carrying equals the tranche's
\* remaining_principal.
C6_GrossCarryingSynced ==
    \A i \in TrancheIdx :
        tranches[i].ifrs.gross_carrying = tranches[i].remaining_principal

\* C7: whenever the call triggers, every tranche's remaining principal is 0
\* once the terminal record is appended, and the recorded call redemption is
\* the amount by which the balance was actually reduced, whatever
\* call_price_pct is.
C7_CallRedeemsInFull ==
    [][(pc = "call" /\ pc' = "done") =>
        \A i \in TrancheIdx :
            /\ tranches'[i].remaining_principal = 0
            /\ period'.call_redemption[tranches[i].name] =
                   tranches[i].remaining_principal
                       - tranches'[i].remaining_principal]_vars

\* The call condition of period t + 1, on the balances taken at line 232-233.
CallCondition ==
    /\ callable_opt # <<>>
    /\ t + 1 >= callable_opt[1].call_period
    /\ pool_balance * 100 < 5 * notes_balance

WaterfallKeys ==
    {"fees_paid", "interest_paid", "principal_paid", "losses", "reserve_fill",
     "reinvested_principal"}

\* The step from the call check ends the run with a terminal called record
\* and leaves fees, reserve, interest and loss bookkeeping untouched.
CalledStep ==
    /\ pc' = "done"
    /\ "called" \in DOMAIN period' /\ period'.called
    /\ period'.month = t + 1
    /\ history' = Append(history, period')
    /\ DOMAIN period' \cap WaterfallKeys = {}
    /\ fees' = fees /\ reserve' = reserve /\ pool' = pool
    /\ \A i \in TrancheIdx :
          /\ tranches'[i].losses = tranches[i].losses
          /\ tranches'[i].interest_paid = tranches[i].interest_paid
          /\ tranches'[i].ifrs.interest_income = tranches[i].ifrs.interest_income

\* C8: the run ends CALLED at period p exactly when p is the first period
\* with p >= call_period and pool balance < 5% of the notes balance; p's
\* record carries called = true and is the last one, no waterfall step runs
\* in p, and no earlier record carries called.
C8_CalledExactlyOnTrigger ==
    /\ [][(pc = "call") => (CalledStep <=> CallCondition)]_vars
    /\ [](\A k \in 1..Len(history) :
            "called" \in DOMAIN history[k] =>
                /\ k = Len(history)
                /\ pc = "done"
                /\ history[k].called
                /\ DOMAIN history[k] \cap WaterfallKeys = {})
    /\ []((callable_opt # <<>> /\ callable_opt[1].called) =>
            (pc = "done" /\ "called" \in DOMAIN period))

\* C8 witness: a run called in its third period, after two periods in which
\* the waterfall ran: in the second the pool was already below the trigger
\* but the call period had not come.
C8_Witness ==
    /\ pc = "done"
    /\ Len(history) = 3
    /\ "called" \in DOMAIN history[3]
    /\ callable_opt[1].call_period = 3
    /\ history[2].pool_balance * 100
           < 5 * SumMap(history[1].outstanding)

\* The record of the last finished period says the call was exercised.
Called == history # <<>> /\ "called" \in DOMAIN history[Len(history)]

\* Position of pc within one pass of the loop body.
PcRank ==
    CASE pc = "loans" -> 0
      [] pc = "call" -> 1
      [] pc = "fees" -> 2
      [] pc = "interest" -> 3
      [] pc = "principal" -> 4
      [] pc = "losses" -> 5
      [] pc = "reserve" -> 6
      [] pc = "reinvest" -> 7
      [] pc = "record" -> 8
      [] pc = "done" -> 9

\* Steps left at most: decreases with every step, never below 0.
StepsLeft == (cfg.periods - t) * 10 - PcRank

\* Every tranche's remaining principal is below the tolerance.
NotesRetired == \A i \in TrancheIdx : tranches[i].remaining_principal < 1

\* The shape of the history and of the final state.  Every step but the
\* loop head is enabled by its position alone (a branch and its complement
\* where there are two), so the run can only stop at "done" or at a loop
\* head with no period left, which the second conjunct excludes.
HistoryShape ==
    /\ StepsLeft >= 0
    /\ pc = "loans" => t < cfg.periods
    /\ Len(history) <= cfg.periods
    /\ \A k \in 1..Len(history) : history[k].month = k
    /\ pc = "done" =>
          /\ Len(history) >= 1
          /\ Len(history) < cfg.periods => (Called \/ NotesRetired)
          /\ (~Called /\ ~NotesRetired) => Len(history) = cfg.periods
    /\ pc # "done" =>
          \A k \in 1..Len(history) :
              /\ "called" \notin DOMAIN history[k]
              /\ \E n \in DOMAIN history[k].outstanding :
                    history[k].outstanding[n] > 0

\* C9: simulate_abs terminates with records for months 1..k, 1 <= k <=
\* periods; k < periods only if the call triggered in period k or every
\* tranche is paid off at the end of k; once every tranche is paid off no
\* further period is simulated; otherwise exactly `periods` periods run.
C9_Termination == [][StepsLeft' < StepsLeft]_vars /\ []HistoryShape

\* C9 witness: a run that stopped before the horizon, without a call, because
\* every tranche was paid off (FULLY_AMORTIZED).
C9_Witness ==
    /\ pc = "done"
    /\ Len(history) = 2
    /\ cfg.periods = 3
    /\ ~Called
    /\ NotesRetired

\* C10: a period's reinvested_principal is the face amount of the loans
\* appended to the pool in that period: 0 at or after pro_rata_start and
\* whenever leftover principal is below the origination size.
C10_ReinvestedIsNewLoanFace ==
    [][(pc = "reinvest") =>
        /\ period'.reinvested_principal = LoanSize * (Len(pool') - Len(pool))
        /\ ~Sequential => period'.reinvested_principal = 0
        /\ leftover_principal < LoanSize => period'.reinvested_principal = 0]_vars

\* C11: the reserve always has 0 <= balance <= target, and each fill adds
\* min(cash offered, target - balance), never a negative amount.
C11_ReserveWithinTarget ==
    /\ [](0 <= reserve.balance /\ reserve.balance <= reserve.target)
    /\ [][(pc = "reserve") =>
            LET added == reserve'.balance - reserve.balance
                offered == cash_interest + cash_principal
            IN  /\ offered >= 0
                /\ added = Min(offered, reserve.target - reserve.balance)
                /\ added >= 0
                /\ results'.reserve_fill = added
                /\ reserve'.target = reserve.target]_vars

\* C11 witness: a fill that took all the cash offered and still left the
\* reserve below its target.
C11_Witness ==
    /\ pc = "reinvest"
    /\ period.reserve_fill > 0
    /\ period.reserve_fill = cash_interest + cash_principal
    /\ reserve.balance < reserve.target

\* C12: once the reserve balance equals its target, a fill returns 0 and
\* leaves the balance unchanged, whatever cash is offered.
C12_FullReserveTakesNothing ==
    [][(pc = "reserve" /\ reserve.balance = reserve.target) =>
        /\ results'.reserve_fill = 0
        /\ reserve' = reserve]_vars

\* C12 witness: the reserve reached a positive target in an earlier period
\* and a later fill, offered cash, added nothing.
C12_Witness ==
    /\ pc = "reinvest"
    /\ history # <<>>
    /\ reserve.target > 0
    /\ history[Len(history)].reserve_balance = reserve.target
    /\ cash_interest + cash_principal > 0
    /\ period.reserve_fill = 0
    /\ reserve.balance = reserve.target

\* Number of times the loans of the initial pool have been stepped.
LoanSteps == IF pc = "loans" THEN t ELSE t + 1

TiedLevels ==
    \E i, j \in 1..Len(tranches) :
        /\ i # j
        /\ tranches[i].subordination_level = tranches[j].subordination_level

OverlappingTiers ==
    \E k \in 1..Len(fees) :
        LET sched == fees[k].tier_schedule
        IN  \E i, j \in 1..Len(sched) :
                /\ i # j
                /\ Max(sched[i][1], sched[j][1]) <= Min(sched[i][2], sched[j][2])

NonPositiveTerm == \E i \in 1..Len(pool) : pool[i].term <= 0

NothingSimulated ==
    /\ pc = "loans" /\ t = 0 /\ history = <<>>
    /\ \A i \in 1..Len(pool) :
           pool[i].active /\ pool[i].remaining_principal = pool[i].principal
    /\ \A i \in 1..Len(tranches) :
           tranches[i] = Tranche(tranches[i].name, tranches[i].principal,
                                 tranches[i].rate,
                                 tranches[i].subordination_level,
                                 tranches[i].ifrs.eir)
    /\ \A k \in 1..Len(fees) : fees[k].accrued = 0
    /\ reserve.balance = 0

\* C14: a configuration with tied subordination levels, overlapping fee
\* tiers or a non-positive loan term is rejected before any period is
\* simulated: no loan is stepped, no tranche, fee or reserve state is
\* changed and no record is produced.
C14_InvalidConfigRejected ==
    (TiedLevels \/ OverlappingTiers \/ NonPositiveTerm) => NothingSimulated

\* The fields simulate_abs and waterfall write into a period's record.
RecordKeys ==
    {"month", "total_interest", "total_principal", "total_prepayment",
     "total_default", "total_losses", "outstanding", "ifrs_interest_income",
     "ifrs_impairment", "stage", "accrued", "reserve_balance", "pool_balance"}
        \cup WaterfallKeys

\* C15: when a loss is left over after every tranche has absorbed what it
\* can, the period's record carries the residual as unabsorbed and, if a
\* period is left, the simulation goes on to it.
C15_ResidualLossReported ==
    [][(pc = "record" /\ losses > 0) =>
        /\ \E k \in DOMAIN period' \ RecordKeys : period'[k] = losses
        /\ (t + 1 < cfg.periods) => (pc' = "loans")]_vars

\* A tranche's balance at the start of the period being simulated.
StartBalance(i) ==
    IF history = <<>> THEN tranches[i].principal
    ELSE history[Len(history)].outstanding[tranches[i].name]

\* C16: the waterfall runs fees, tranche interest, tranche principal, loss
\* allocation, reserve fill in that order; a tranche's interest_due is
\* coupon / 12 times its balance at the start of the period, and its interest
\* paid is min(interest_due, interest cash left after all fees and the
\* interest of the tranches ahead of it).
C16_InterestOnStartBalance ==
    /\ [][/\ (pc = "fees") => (pc' = "interest")
          /\ (pc = "interest") => (pc' = "principal")
          /\ (pc = "principal") => (pc' = "losses")
          /\ (pc = "losses") => (pc' = "reserve")
          /\ (pc = "interest") =>
                \A i \in TrancheIdx :
                    tranches[i].remaining_principal = StartBalance(i)]_vars
    /\ [](InWaterfallAfterInterest =>
            \A i \in TrancheIdx :
                LET due == tranches[i].interest_due
                    ahead == {j \in TrancheIdx : PaidBefore(j, i)}
                    left == period.total_interest
                              - SumMap(results.fees_paid)
                              - SumOver(ahead, [j \in TrancheIdx |->
                                                   tranches[j].interest_paid])
                IN  /\ due * tranches[i].rate.den * 12
                          <= StartBalance(i) * tranches[i].rate.num
                    /\ StartBalance(i) * tranches[i].rate.num
                          < (due + 1) * tranches[i].rate.den * 12
                    /\ tranches[i].interest_paid = Min(due, left)
                    /\ results.interest_paid[tranches[i].name]
                          = tranches[i].interest_paid)

\* C16 witness: in a later period a tranche whose balance has been paid down
\* below its face amount is due a coupon and, after the fees and the tranches
\* ahead of it, is paid only a part of it.
C16_Witness ==
    /\ pc = "record"
    /\ history # <<>>
    /\ \E i \in TrancheIdx :
          /\ 0 < StartBalance(i)
          /\ StartBalance(i) < tranches[i].principal
          /\ 0 < tranches[i].interest_paid
          /\ tranches[i].interest_paid < tranches[i].interest_due

FeeIdx == 1..Len(fees)

\* The annual rate of fee k in period p: that of the first tier whose
\* inclusive range contains p, else the base rate.
FirstTierRate(k, p) ==
    LET sched == fees[k].tier_schedule
        hits == {i \in 1..Len(sched) : sched[i][1] <= p /\ p <= sched[i][2]}
    IN  IF hits = {} THEN fees[k].base_rate
        ELSE sched[CHOOSE i \in hits : \A j \in hits : i <= j][3]

\* e is pool_balance * rate / 12 in whole units.
IsEntitlement(e, rate) ==
    /\ e * rate.den * 12 <= pool_balance * rate.num
    /\ pool_balance * rate.num < (e + 1) * rate.den * 12

\* What fee k has been paid in the periods recorded so far.
FeePaidInHistory(k) ==
    SumOver({m \in 1..Len(history) : "fees_paid" \in DOMAIN history[m]},
            [m \in 1..Len(history) |->
                IF "fees_paid" \in DOMAIN history[m]
                THEN history[m].fees_paid[fees[k].name] ELSE 0])

\* C17: a fee's accrued never decreases; each waterfall period adds the full
\* entitlement pool_balance * get_rate(period) / 12 whatever the interest
\* cash; accrued is at least the cumulative amount paid to the fee; a fee is
\* paid less than its entitlement only when the interest cash left after the
\* fees of higher priority is smaller than the entitlement.
C17_FeeAccrual ==
    /\ [][/\ \A k \in FeeIdx : fees'[k].accrued >= fees[k].accrued
          /\ (pc # "fees") => (fees' = fees)
          /\ (pc = "fees") =>
                \A k \in FeeIdx :
                    LET ent == fees'[k].accrued - fees[k].accrued
                        paid == results'.fees_paid[fees[k].name]
                        ahead == {j \in FeeIdx :
                                     \/ fees[j].priority < fees[k].priority
                                     \/ /\ fees[j].priority = fees[k].priority
                                        /\ j < k}
                        left == period.total_interest
                                  - SumOver(ahead,
                                        [j \in FeeIdx |->
                                            results'.fees_paid[fees[j].name]])
                    IN  /\ IsEntitlement(ent, FirstTierRate(k, t + 1))
                        /\ paid = Min(ent, left)
                        /\ (paid < ent) => (left < ent)]_vars
    /\ [](\A k \in FeeIdx :
            fees[k].accrued >=
                FeePaidInHistory(k)
                  + (IF pc \in {"interest", "principal", "losses", "reserve",
                                "reinvest"}
                     THEN results.fees_paid[fees[k].name] ELSE 0))

\* C17 witness: a fee on a tier rate was paid a part of its entitlement in
\* the current period, so its accrued runs ahead of what it has been paid.
C17_Witness ==
    /\ pc = "interest"
    /\ \E k \in FeeIdx :
          /\ FirstTierRate(k, t + 1) # fees[k].base_rate
          /\ 0 < results.fees_paid[fees[k].name]
          /\ fees[k].accrued > FeePaidInHistory(k) + results.fees_paid[fees[k].name]

\* C18: for every tranche the impairment stage is 3 if its cumulative losses
\* are positive and 1 otherwise, the stage never decreases, and the
\* cumulative impairment equals the cumulative losses; the records written
\* at the end of each period say the same.
C18_StageFollowsLosses ==
    /\ [](\A i \in TrancheIdx :
            /\ tranches[i].ifrs.stage = (IF tranches[i].losses > 0 THEN 3 ELSE 1)
            /\ tranches[i].ifrs.impairment = tranches[i].losses)
    /\ [][\A i \in TrancheIdx :
            tranches'[i].ifrs.stage >= tranches[i].ifrs.stage]_vars
    /\ [](\A k \in 1..Len(history) :
            "stage" \in DOMAIN history[k] =>
                \A n \in DOMAIN history[k].stage :
                    /\ history[k].stage[n]
                          = (IF history[k].losses[n] > 0 THEN 3 ELSE 1)
                    /\ history[k].ifrs_impairment[n] = history[k].losses[n])

\* C18 witness: a tranche took losses in two periods while another tranche
\* took none and is still in stage 1.
C18_Witness ==
    /\ pc = "done"
    /\ Len(history) >= 2
    /\ "losses" \in DOMAIN history[2]
    /\ \E i, j \in TrancheIdx :
          /\ 0 < history[1].losses[tranches[i].name]
          /\ history[1].losses[tranches[i].name]
                < history[2].losses[tranches[i].name]
          /\ tranches[i].ifrs.stage = 3
          /\ tranches[j].losses = 0
          /\ tranches[j].ifrs.stage = 1

\* The loans appended to the pool by reinvestment.
Reinvested == (cfg.initial_loans + 1)..Len(pool)

\* C19: a reinvestment loan is originated in period p, before pro_rata_start,
\* only if every tranche has remaining principal 0 after p's principal step,
\* so the run ends with p's record; no reinvested loan is ever stepped.
C19_ReinvestmentOnlyAtTheEnd ==
    /\ [][/\ (Len(pool') # Len(pool)) =>
                /\ pc = "reinvest" /\ Sequential /\ NotesRetired
                /\ Len(pool') > Len(pool)
                /\ pc' = "record"
          /\ (pc = "record" /\ Reinvested # {}) => (pc' = "done")
          /\ (pc = "loans") => (Reinvested = {})]_vars
    /\ [](\A i \in Reinvested :
            /\ pc \in {"record", "done"}
            /\ pool[i] = Loan(LoanSize, cfg.loan_rate, cfg.loan_term))

\* C19 witness: loans were reinvested in a period before the horizon and
\* the run ended with that period.
C19_Witness ==
    /\ pc = "done"
    /\ Reinvested # {}
    /\ Len(history) < cfg.periods

\* C20: in every waterfall period fees paid + tranche interest paid +
\* tranche principal paid + reserve fill + face amount of the loans
\* reinvested is at most total_interest + total_principal: the principal
\* cash put in the reserve is not spent again on reinvestment.
C20_CashConservation ==
    [][(pc = "reinvest") =>
        SumMap(results.fees_paid) + SumMap(results.interest_paid)
            + SumMap(results.principal_paid) + results.reserve_fill
            + LoanSize * (Len(pool') - Len(pool))
          <= period.total_interest + period.total_principal]_vars

====
